---- MODULE Spec2Model ----
(***************************************************************************)
(* Register table, registry lookups and register codecs of the JVL MAC400  *)
(* Modbus register module (src/mac400.py).                                 *)
(*                                                                         *)
(* A behaviour is a sequence of calls made by a client of the module: a    *)
(* call is entered from pc = "idle", runs (register_for_address runs its   *)
(* while loop one iteration per step) and ends in pc = "returned" with the *)
(* value in ret, or in pc = "raised" with the exception class in ret.      *)
(* The client may feed a result into the inverse operation (decode the     *)
(* words that encode returned, and so on); orig then keeps the first       *)
(* call's argument.                                                        *)
(*                                                                         *)
(* Python integers are unbounded; they are modelled in sign-magnitude form *)
(* with the magnitude a little-endian sequence of NBytes bytes, which is   *)
(* also the form struct.pack lays them out in.  Python floats are modelled *)
(* as exact rationals, a signed numerator over a small denominator.        *)
(***************************************************************************)
EXTENDS Integers, Sequences, FiniteSets

VARIABLES pc, fn, reg, arg, orig, lo, hi, acc, idx, packed, ret

vars == <<pc, fn, reg, arg, orig, lo, hi, acc, idx, packed, ret>>

(***************************************************************************)
(* Bounds of the model.                                                    *)
(***************************************************************************)
\* register_for_address is probed with the addresses -BelowAddr .. MaxAddr
MaxAddr == 470

BelowAddr == 3

\* bytes kept of the magnitude of a Python integer
NBytes == 13

(***************************************************************************)
(* The register table.                                                     *)
(***************************************************************************)
all_registers ==
    <<
    [name |-> "PROG_VERSION", num |-> 1],
    [name |-> "MODE_REG", num |-> 2],
    [name |-> "P_SOLL", num |-> 3],
    [name |-> "P_NEW", num |-> 4],
    [name |-> "V_SOLL", num |-> 5],
    [name |-> "A_SOLL", num |-> 6],
    [name |-> "T_SOLL", num |-> 7],
    [name |-> "P_FNC", num |-> 8],
    [name |-> "INDEX_OFFSET", num |-> 9],
    [name |-> "P_IST", num |-> 10],
    [name |-> "V_IST_16", num |-> 11],
    [name |-> "V_IST", num |-> 12],
    [name |-> "KVOUT", num |-> 13],
    [name |-> "GEARF1", num |-> 14],
    [name |-> "GEARF2", num |-> 15],
    [name |-> "I2T", num |-> 16],
    [name |-> "I2TLIM", num |-> 17],
    [name |-> "UIT", num |-> 18],
    [name |-> "UITLIM", num |-> 19],
    [name |-> "FLWERR", num |-> 20],
    [name |-> "U_24V", num |-> 21],
    [name |-> "FLWERRMAX", num |-> 22],
    [name |-> "UV_HANDLE", num |-> 23],
    [name |-> "FNCERR", num |-> 24],
    [name |-> "P_IST_TURNTAB", num |-> 25],
    [name |-> "FNCERRMAX", num |-> 26],
    [name |-> "TURNTAB_COUNT", num |-> 27],
    [name |-> "MIN_P_IST", num |-> 28],
    [name |-> "DEGC", num |-> 29],
    [name |-> "MAX_P_IST", num |-> 30],
    [name |-> "DEGCMAX", num |-> 31],
    [name |-> "ACC_EMERG", num |-> 32],
    [name |-> "INPOSWIN", num |-> 33],
    [name |-> "INPOSCNT", num |-> 34],
    [name |-> "ERR_STAT", num |-> 35],
    [name |-> "CNTRL_BITS", num |-> 36],
    [name |-> "START_MODE", num |-> 37],
    [name |-> "P_HOME", num |-> 38],
    [name |-> "HW_SETUP", num |-> 39],
    [name |-> "V_HOME", num |-> 40],
    [name |-> "T_HOME", num |-> 41],
    [name |-> "HOME_MODE", num |-> 42],
    [name |-> "P_REG_P", num |-> 43],
    [name |-> "V_REG_P", num |-> 44],
    [name |-> "A_REG_P", num |-> 45],
    [name |-> "T_REG_P", num |-> 46],
    [name |-> "L_REG_P", num |-> 47],
    [name |-> "Z_REG_P", num |-> 48],
    [name |-> "POS0", num |-> 49],
    [name |-> "CAPCOM0", num |-> 50],
    [name |-> "POS1", num |-> 51],
    [name |-> "CAPCOM1", num |-> 52],
    [name |-> "POS2", num |-> 53],
    [name |-> "CAPCOM2", num |-> 54],
    [name |-> "POS3", num |-> 55],
    [name |-> "CAPCOM3", num |-> 56],
    [name |-> "POS4", num |-> 57],
    [name |-> "CAPCOM4", num |-> 58],
    [name |-> "POS5", num |-> 59],
    [name |-> "CAPCOM5", num |-> 60],
    [name |-> "POS6", num |-> 61],
    [name |-> "CAPCOM6", num |-> 62],
    [name |-> "POS7", num |-> 63],
    [name |-> "CAPCOM7", num |-> 64],
    [name |-> "VEL0", num |-> 65],
    [name |-> "VEL1", num |-> 66],
    [name |-> "VEL2", num |-> 67],
    [name |-> "VEL3", num |-> 68],
    [name |-> "VEL4", num |-> 69],
    [name |-> "VEL5", num |-> 70],
    [name |-> "VEL6", num |-> 71],
    [name |-> "VEL7", num |-> 72],
    [name |-> "ACC0", num |-> 73],
    [name |-> "ACC1", num |-> 74],
    [name |-> "ACC2", num |-> 75],
    [name |-> "ACC3", num |-> 76],
    [name |-> "TQ0", num |-> 77],
    [name |-> "TQ1", num |-> 78],
    [name |-> "TQ2", num |-> 79],
    [name |-> "TQ3", num |-> 80],
    [name |-> "LOAD0", num |-> 81],
    [name |-> "LOAD1", num |-> 82],
    [name |-> "LOAD2", num |-> 83],
    [name |-> "LOAD3", num |-> 84],
    [name |-> "ZERO0", num |-> 85],
    [name |-> "ZERO1", num |-> 86],
    [name |-> "ZERO2", num |-> 87],
    [name |-> "ZERO3", num |-> 88],
    [name |-> "MODE0", num |-> 89],
    [name |-> "MODE1", num |-> 90],
    [name |-> "MODE2", num |-> 91],
    [name |-> "MODE3", num |-> 92],
    [name |-> "HWI0", num |-> 93],
    [name |-> "HWI1", num |-> 94],
    [name |-> "HWI2", num |-> 95],
    [name |-> "HWI3", num |-> 96],
    [name |-> "HWI4", num |-> 97],
    [name |-> "HWI5", num |-> 98],
    [name |-> "HWI6", num |-> 99],
    [name |-> "HWI70", num |-> 100],
    [name |-> "HWI80", num |-> 101],
    [name |-> "HWI90", num |-> 102],
    [name |-> "HWI100", num |-> 103],
    [name |-> "HWI110", num |-> 104],
    [name |-> "MAC00_TYP0", num |-> 105],
    [name |-> "MAC00_10", num |-> 106],
    [name |-> "MAC00_20", num |-> 107],
    [name |-> "MAC00_30", num |-> 108],
    [name |-> "MAC00_40", num |-> 109],
    [name |-> "MAC00_51", num |-> 110],
    [name |-> "MAC00_61", num |-> 111],
    [name |-> "MAC00_71", num |-> 112],
    [name |-> "MAC00_81", num |-> 113],
    [name |-> "MAC00_91", num |-> 114],
    [name |-> "MAC00_101", num |-> 115],
    [name |-> "MAC00_111", num |-> 116],
    [name |-> "MAC00_121", num |-> 117],
    [name |-> "MAC00_131", num |-> 118],
    [name |-> "MAC00_141", num |-> 119],
    [name |-> "MAC00_152", num |-> 120],
    [name |-> "KFF5", num |-> 121],
    [name |-> "KFF4", num |-> 122],
    [name |-> "KFF", num |-> 123],
    [name |-> "KFF2", num |-> 124],
    [name |-> "KFF1", num |-> 125],
    [name |-> "KFF0", num |-> 126],
    [name |-> "KVFX6", num |-> 127],
    [name |-> "KVFX5", num |-> 128],
    [name |-> "KVFX4", num |-> 129],
    [name |-> "KVFX3", num |-> 130],
    [name |-> "KVFX2", num |-> 131],
    [name |-> "KVFX1", num |-> 132],
    [name |-> "KVFY5", num |-> 133],
    [name |-> "KVFY", num |-> 134],
    [name |-> "KVFY3", num |-> 135],
    [name |-> "KVFY2", num |-> 136],
    [name |-> "KVFY1", num |-> 137],
    [name |-> "KVFY", num |-> 138],
    [name |-> "KVB4", num |-> 139],
    [name |-> "KVB3", num |-> 140],
    [name |-> "KVB2", num |-> 141],
    [name |-> "KVB1", num |-> 142],
    [name |-> "KVB0", num |-> 143],
    [name |-> "KIFX2", num |-> 144],
    [name |-> "KIFX1", num |-> 145],
    [name |-> "KIFY1", num |-> 146],
    [name |-> "KIFY0", num |-> 147],
    [name |-> "KIB1", num |-> 148],
    [name |-> "KIB0", num |-> 149],
    [name |-> "ID_RESERVED", num |-> 155],
    [name |-> "S_ORDER", num |-> 156],
    [name |-> "OUTLOOPDIV", num |-> 157],
    [name |-> "SAMPLE1", num |-> 158],
    [name |-> "SAMPLE2", num |-> 159],
    [name |-> "SAMPLE3", num |-> 160],
    [name |-> "SAMPLE4", num |-> 161],
    [name |-> "REC_CNT", num |-> 162],
    [name |-> "V_EXT", num |-> 163],
    [name |-> "GV_EXT", num |-> 164],
    [name |-> "G_FNC", num |-> 165],
    [name |-> "FNC_OUT", num |-> 166],
    [name |-> "FF_OUT", num |-> 167],
    [name |-> "VB_OUT", num |-> 168],
    [name |-> "VF_OUT", num |-> 169],
    [name |-> "ANINP", num |-> 170],
    [name |-> "ANINP_OFFSET", num |-> 171],
    [name |-> "ELDEG_OFFSET", num |-> 172],
    [name |-> "PHASE_COMP", num |-> 173],
    [name |-> "AMPLITUDE", num |-> 174],
    [name |-> "MAN_I_NOM", num |-> 175],
    [name |-> "MAN_ALPHA", num |-> 176],
    [name |-> "UMEAS", num |-> 177],
    [name |-> "I_NOM", num |-> 178],
    [name |-> "PHI_SOLL", num |-> 179],
    [name |-> "IA_SOLL", num |-> 180],
    [name |-> "IB_SOLL", num |-> 181],
    [name |-> "IC_SOLL", num |-> 182],
    [name |-> "IA_IST", num |-> 183],
    [name |-> "IB_IST", num |-> 184],
    [name |-> "IC_IST", num |-> 185],
    [name |-> "IA_OFFSET", num |-> 186],
    [name |-> "IB_OFFSET", num |-> 187],
    [name |-> "KIA", num |-> 188],
    [name |-> "KIB", num |-> 189],
    [name |-> "ELDEG_IST", num |-> 190],
    [name |-> "V_ELDEG", num |-> 191],
    [name |-> "UA_VAL", num |-> 192],
    [name |-> "UB_VAL", num |-> 193],
    [name |-> "UC_VAL", num |-> 194],
    [name |-> "EMK_A", num |-> 195],
    [name |-> "EMK_B", num |-> 196],
    [name |-> "EMK_C", num |-> 197],
    [name |-> "U_BUS", num |-> 198],
    [name |-> "U_BUS_OFFSET", num |-> 199],
    [name |-> "TC0_CV1", num |-> 200],
    [name |-> "TC0_CV2", num |-> 201],
    [name |-> "MY_ADDR", num |-> 202],
    [name |-> "MOTOR_TYPE", num |-> 203],
    [name |-> "SERIAL_NUMBER", num |-> 204],
    [name |-> "HW_VERSION", num |-> 205],
    [name |-> "CHKSUM", num |-> 206],
    [name |-> "USEROUTVAL", num |-> 207],
    [name |-> "COMM_ERRS", num |-> 208],
    [name |-> "INDEX_IST", num |-> 209],
    [name |-> "HW_PLIM", num |-> 210],
    [name |-> "COMMAND_REG", num |-> 211],
    [name |-> "UART0_SETUP", num |-> 212],
    [name |-> "UART1_SETUP", num |-> 213],
    [name |-> "EXTENC_BITS", num |-> 214],
    [name |-> "INPUT_LEVELS", num |-> 215],
    [name |-> "ANINP1", num |-> 216],
    [name |-> "ANINP1_OFFSET", num |-> 217],
    [name |-> "ANINP2", num |-> 218],
    [name |-> "ANINP2_OFFSET", num |-> 219],
    [name |-> "ANINP3", num |-> 220],
    [name |-> "ANINP3_OFFSET", num |-> 221],
    [name |-> "IOSETUP", num |-> 222],
    [name |-> "ANOUT1", num |-> 223],
    [name |-> "ANOUT1_OFFSET", num |-> 224],
    [name |-> "P_OFFSET", num |-> 225],
    [name |-> "P_MULTITURN", num |-> 226],
    [name |-> "AIFILT_MAXSLOPE", num |-> 227],
    [name |-> "AIFILT_FILTFACT", num |-> 228],
    [name |-> "P_QUICK", num |-> 229],
    [name |-> "XREG_ADDR", num |-> 230],
    [name |-> "XREG_DATA", num |-> 231]
    >>

NumRegisters == Len(all_registers)

\* all_registers[i] with Python's 0-based index
Item(i) == all_registers[i + 1]

\* the register numbers the table leaves out ('register 0 is reserved',
\* 'registers 150-154 are reserved')
ReservedNums == {0, 150, 151, 152, 153, 154}

\* a span that reaches into the next register's first address
Addr_overlapping(r) == <<2 * r.num, 2 * r.num + 2>>

\* Register.addr: the two Modbus addresses of a register
Addr(r) == <<2 * r.num, 2 * r.num + 1>>

\* all_registers[mid].addr[-1], the key the binary search compares
SpanLast_first(r) == Addr(r)[1]

SpanLast(r) == Addr(r)[2]

\* addr in r.addr
InAddr(a, r) == a = Addr(r)[1] \/ a = Addr(r)[2]

RegisterNames == {all_registers[i].name : i \in 1..NumRegisters}

\* the dict comprehension: a later entry replaces an earlier one of the same name
registers_by_name ==
    [n \in RegisterNames |->
        CHOOSE i \in 1..NumRegisters :
            /\ all_registers[i].name = n
            /\ \A j \in 1..NumRegisters : all_registers[j].name = n => j <= i]


(***************************************************************************)
(* Python integers: magnitudes as little-endian byte sequences.            *)
(***************************************************************************)
Bytes == 1..NBytes

Pow2(k) == 2 ^ k

\* byte i of a, zero beyond the bytes kept
ByteAt(a, i) == IF i \in 1..Len(a) THEN a[i] ELSE 0

RECURSIVE OfFrom(_, _)
OfFrom(n, i) ==
    IF i > NBytes THEN <<>> ELSE <<n % 256>> \o OfFrom(n \div 256, i + 1)

\* the magnitude of a machine-size natural number n
BigOf(n) == OfFrom(n, 1)

BigZero == BigOf(0)

RECURSIVE MulFrom(_, _, _, _)
MulFrom(a, c, i, carry) ==
    IF i > NBytes THEN <<>>
    ELSE <<(a[i] * c + carry) % 256>> \o MulFrom(a, c, i + 1, (a[i] * c + carry) \div 256)

\* a * c for a machine-size factor 0 <= c < 2^22
BigMulSmall(a, c) == MulFrom(a, c, 1, 0)

RECURSIVE DivFrom(_, _, _, _)
DivFrom(a, d, i, rem) ==
    IF i = 0 THEN <<>>
    ELSE DivFrom(a, d, i - 1, (rem * 256 + a[i]) % d) \o <<(rem * 256 + a[i]) \div d>>

\* a // d for a machine-size divisor 0 < d < 2^23
BigDivSmall(a, d) == DivFrom(a, d, NBytes, 0)

RECURSIVE MulAll(_, _)
\* a times every factor of the sequence fs
MulAll(a, fs) ==
    IF fs = <<>> THEN a ELSE MulAll(BigMulSmall(a, Head(fs)), Tail(fs))

RECURSIVE DivAll(_, _)
\* a floor-divided by every factor of the sequence fs
DivAll(a, fs) ==
    IF fs = <<>> THEN a ELSE DivAll(BigDivSmall(a, Head(fs)), Tail(fs))

RECURSIVE AddFrom(_, _, _, _)
AddFrom(a, b, i, carry) ==
    IF i > NBytes THEN <<>>
    ELSE <<(a[i] + b[i] + carry) % 256>> \o AddFrom(a, b, i + 1, (a[i] + b[i] + carry) \div 256)

BigAdd(a, b) == AddFrom(a, b, 1, 0)

RECURSIVE SubFrom(_, _, _, _)
SubFrom(a, b, i, borrow) ==
    IF i > NBytes THEN <<>>
    ELSE <<(a[i] - b[i] - borrow) % 256>>
         \o SubFrom(a, b, i + 1, IF a[i] - b[i] - borrow < 0 THEN 1 ELSE 0)

\* a - b for a >= b
BigSub(a, b) == SubFrom(a, b, 1, 0)

RECURSIVE BigCmp(_, _, _)
\* -1, 0, 1 as the bytes 1..i of a are below, equal to, above those of b
BigCmp(a, b, i) ==
    IF i = 0 THEN 0
    ELSE IF a[i] < b[i] THEN 0 - 1
    ELSE IF a[i] > b[i] THEN 1
    ELSE BigCmp(a, b, i - 1)

BigLess(a, b) == BigCmp(a, b, NBytes) < 0

BigLeq(a, b) == BigCmp(a, b, NBytes) <= 0

RECURSIVE ShrFrom(_, _, _, _)
ShrFrom(a, q, r, i) ==
    IF i > NBytes THEN <<>>
    ELSE <<(ByteAt(a, i + q) \div Pow2(r)) + (ByteAt(a, i + q + 1) % Pow2(r)) * Pow2(8 - r)>>
         \o ShrFrom(a, q, r, i + 1)

\* x >> k
BigShr(a, k) == ShrFrom(a, k \div 8, k % 8, 1)

\* 1 << k
BigPow2(k) == MulAll(BigOf(Pow2(k % 8)), [i \in 1..(k \div 8) |-> 256])

RECURSIVE ByteOr(_, _, _)
\* bits j..7 of the bitwise or of the bytes p and q
ByteOr(p, q, j) ==
    IF j > 7 THEN 0
    ELSE (IF (p \div Pow2(j)) % 2 = 1 \/ (q \div Pow2(j)) % 2 = 1 THEN Pow2(j) ELSE 0)
         + ByteOr(p, q, j + 1)

RECURSIVE OrFrom(_, _, _)
OrFrom(a, b, i) ==
    IF i > NBytes THEN <<>> ELSE <<ByteOr(a[i], b[i], 0)>> \o OrFrom(a, b, i + 1)

\* x | y
BigOr(a, b) == OrFrom(a, b, 1)

\* lo + 65536 * hi, the 32-bit number that two 16-bit words spell
BigOfWords(wlo, whi) == BigAdd(BigOf(wlo), BigMulSmall(BigOf(whi), 65536))

(***************************************************************************)
(* Values held by arg, orig and ret.  Every value has the same fields:     *)
(* tag tells the Python type; s holds a string (a register name, the class *)
(* of an exception, the name of a MODE member); n a small integer (an      *)
(* address, a position in all_registers, the value of a MODE member, the   *)
(* width given to explode_bits); neg and seq the sign and the magnitude of *)
(* an int, or the two words of a pair, or a list of bits.  A float is the  *)
(* rational with sign neg, numerator seq and, as denominator, the product  *)
(* of the factors den.                                                     *)
(***************************************************************************)
Val(t, str, k, sgn, sq, dn) ==
    [tag |-> t, s |-> str, n |-> k, neg |-> sgn, seq |-> sq, den |-> dn]

NoVal == Val("none", "", 0, FALSE, <<>>, <<>>)

Error(e) == Val("error", e, 0, FALSE, <<>>, <<>>)

AddrVal(a) == Val("addr", "", a, FALSE, <<>>, <<>>)

NameVal(name) == Val("name", name, 0, FALSE, <<>>, <<>>)

\* the register at position i of all_registers (positions count from 1)
RegisterVal(i) == Val("register", "", i, FALSE, <<>>, <<>>)

\* the Python int of sign sgn and magnitude mag (zero has no sign)
IntVal(sgn, mag) == Val("int", "", 0, sgn /\ mag # BigZero, mag, <<>>)

\* the Python float sgn * num / (product of dn); ex is "exact" when the float
\* is that rational and "rounded" when it is the double nearest to it
FloatVal(sgn, num, dn, ex) == Val("float", ex, 0, sgn /\ num # BigZero, num, dn)

\* the tuple (w[1], w[2]) of two 16-bit words
WordsVal(w) == Val("words", "", 0, FALSE, w, <<>>)

\* a list of bits
BitsVal(bits) == Val("bits", "", 0, FALSE, bits, <<>>)

(***************************************************************************)
(* pack and unpack (struct, little-endian standard sizes).                 *)
(***************************************************************************)
\* struct.pack accepts x for the format: 'L' is 0 .. 2^32-1, 'l' is -2^31 .. 2^31-1
FitsPattern_any(pattern, x) == TRUE

FitsPattern(pattern, x) ==
    IF pattern = "L"
    THEN ~x.neg /\ BigLess(x.seq, BigPow2(32))
    ELSE IF x.neg THEN BigLeq(x.seq, BigPow2(31)) ELSE BigLess(x.seq, BigPow2(31))

\* struct.pack('<L' or '<l', x): four bytes, least significant first,
\* a negative number in two's complement
StructPack(pattern, x) ==
    LET m == IF x.neg THEN BigSub(BigPow2(32), x.seq) ELSE x.seq
    IN  <<m[1], m[2], m[3], m[4]>>

\* struct.unpack('<HH', b): two little-endian 16-bit words, in the order of the bytes
StructUnpackHH_swapped(b) == <<b[3] + 256 * b[4], b[1] + 256 * b[2]>>

StructUnpackHH(b) == <<b[1] + 256 * b[2], b[3] + 256 * b[4]>>

pack(pattern, x) ==
    IF FitsPattern(pattern, x)
    THEN WordsVal(StructUnpackHH(StructPack(pattern, x)))
    ELSE Error("struct.error")

\* struct.pack('<HH', lo, hi)
StructPackHH(wlo, whi) == <<wlo % 256, wlo \div 256, whi % 256, whi \div 256>>

\* struct.unpack('<L' or '<l', b)[0]
StructUnpack_unsigned(pattern, b) ==
    IntVal(FALSE, b \o SubSeq(BigZero, 5, NBytes))

StructUnpack(pattern, b) ==
    LET m == b \o SubSeq(BigZero, 5, NBytes)
    IN  IF pattern = "l" /\ b[4] >= 128
        THEN IntVal(TRUE, BigSub(BigPow2(32), m))
        ELSE IntVal(FALSE, m)

unpack(pattern, wlo, whi) == StructUnpack(pattern, StructPackHH(wlo, whi))

(***************************************************************************)
(* explode_bits and implode_bits.                                          *)
(***************************************************************************)
\* [ (x >> i) & 1 for i in range(n) ] for an int x >= 0 of magnitude x
explode_bits(x, n) == [i \in 1..n |-> BigShr(x, i - 1)[1] % 2]

\* the lambda that implode_bits folds over the bits, n = len(bits):
\* (bit << (n-1)) | (acc >> 1)
ReduceLambda(a, bit, n) == BigOr(BigMulSmall(BigPow2(n - 1), bit), BigShr(a, 1))

(***************************************************************************)
(* MODE and float arithmetic.                                              *)
(***************************************************************************)
MODE == [PASSIVE |-> 0, VELOCITY |-> 1, POSITION |-> 2, STOP |-> 11]

ModeVal(m) == Val("MODE", m, MODE[m], FALSE, <<>>, <<>>)

\* MODE(v) for an int v: the member of that value, ValueError when there is none
ModeOf_lenient(v) ==
    IF \E m \in DOMAIN MODE : IntVal(FALSE, BigOf(MODE[m])) = v
    THEN ModeVal(CHOOSE m \in DOMAIN MODE : IntVal(FALSE, BigOf(MODE[m])) = v)
    ELSE ModeVal("PASSIVE")

ModeOf(v) ==
    IF \E m \in DOMAIN MODE : IntVal(FALSE, BigOf(MODE[m])) = v
    THEN ModeVal(CHOOSE m \in DOMAIN MODE : IntVal(FALSE, BigOf(MODE[m])) = v)
    ELSE Error("ValueError")

\* a numeric literal n / (product of d)
Literal(k, d) == [n |-> k, d |-> d]

\* 2.77056
ScaleV_SOLL == Literal(277056, <<100000>>)

\* 3.598133e-3
ScaleA_SOLL == Literal(3598133, <<1000, 1000000>>)

\* 341
ScaleT_SOLL == Literal(341, <<>>)

\* (0.17316 * 16)
ScaleV_IST_16 == Literal(17316 * 16, <<100000>>)

\* 0.17316
ScaleV_IST == Literal(17316, <<100000>>)

\* 0.888
ScaleU_BUS == Literal(888, <<1000>>)

\* an operation on x and the literal c gives the exact result when x is exact
\* and c is an integer (a result too large for a double to hold exactly is
\* far beyond the range of every register)
Exactness(x, c) == IF x.s = "exact" /\ c.d = <<>> THEN "exact" ELSE "rounded"

\* x * c for a float x
FloatMul(x, c) ==
    FloatVal(x.neg, BigMulSmall(x.seq, c.n), x.den \o c.d, Exactness(x, c))

\* x / c for a float x
FloatDiv_multiplies(x, c) ==
    FloatVal(x.neg, BigMulSmall(x.seq, c.n), x.den \o c.d, "rounded")

FloatDiv(x, c) == FloatVal(x.neg, MulAll(x.seq, c.d), x.den \o <<c.n>>, "rounded")

\* v / c for an int v
IntTrueDiv(v, c) == FloatVal(v.neg, MulAll(v.seq, c.d), <<c.n>>, "rounded")

\* v * c for an int v
IntMulFloat(v, c) == FloatVal(v.neg, BigMulSmall(v.seq, c.n), c.d, "rounded")

\* int(x) for a float x: the fraction is dropped, towards zero.  Where the
\* rational is a whole number k and the float only the double nearest to it,
\* the double may lie just short of k, and int gives the whole number before
PyInt(x) ==
    LET k == DivAll(x.seq, x.den)
    IN  IF x.s = "exact" \/ k = BigZero \/ MulAll(k, x.den) # x.seq
        THEN {IntVal(x.neg, k)}
        ELSE {IntVal(x.neg, k), IntVal(x.neg, BigSub(k, BigOf(1)))}

(***************************************************************************)
(* The codec of each register (the decode and encode arguments given to    *)
(* Register in all_registers; a register given none has the default).      *)
(***************************************************************************)
SignedNums == {3, 4, 10, 28, 30}

ScaledNums == {5, 6, 7, 11, 12, 198}

\* the struct format of the register's codec
PatternOf(num) == IF num \in SignedNums \union {5, 6, 11, 12} THEN "l" ELSE "L"

\* what decode makes of the int that unpack returned
FromInt(num, v) ==
    CASE num = 2 -> ModeOf(v)
      [] num = 5 -> IntTrueDiv(v, ScaleV_SOLL)
      [] num = 6 -> IntTrueDiv(v, ScaleA_SOLL)
      [] num = 7 -> IntTrueDiv(v, ScaleT_SOLL)
      [] num = 11 -> IntTrueDiv(v, ScaleV_IST_16)
      [] num = 12 -> IntTrueDiv(v, ScaleV_IST)
      [] num = 35 -> BitsVal(explode_bits(v.seq, 32))
      [] num = 198 -> IntMulFloat(v, ScaleU_BUS)
      [] OTHER -> v

\* the float that the encode of a scaled register truncates
Scaled(num, x) ==
    CASE num = 5 -> FloatMul(x, ScaleV_SOLL)
      [] num = 6 -> FloatMul(x, ScaleA_SOLL)
      [] num = 7 -> FloatMul(x, ScaleT_SOLL)
      [] num = 11 -> FloatMul(x, ScaleV_IST_16)
      [] num = 12 -> FloatMul(x, ScaleV_IST)
      [] num = 198 -> FloatDiv(x, ScaleU_BUS)

\* the ints that encode may hand to pack (register 35, ERR_STAT, folds its
\* argument with implode_bits first: see ReduceStep)
ToInt(num, x) ==
    CASE num = 2 -> {IntVal(FALSE, BigOf(x.n))}
      [] num \in ScaledNums -> PyInt(Scaled(num, x))
      [] OTHER -> {x}

\* all_registers[i - 1].decode(wlo, whi)
DecodeReg(i, wlo, whi) ==
    LET num == all_registers[i].num
    IN  FromInt(num, unpack(PatternOf(num), wlo, whi))

(***************************************************************************)
(* The arguments the client calls the module with.                         *)
(***************************************************************************)
ProbeNames == RegisterNames \union {"NO_SUCH_REGISTER"}

WordSamples == {0, 1, 2, 5, 11, 1000, 32767, 32768, 65535}

WordPairs == WordSamples \X WordSamples

\* magnitudes up to 2^32: around 0, 2^15, 2^16, 2^31 and 2^32
MagSamples ==
    {BigOfWords(wlo, whi) : wlo, whi \in {0, 1, 32767, 32768, 65535}} \union {BigPow2(32)}

IntSamples == {IntVal(sgn, m) : sgn \in BOOLEAN, m \in MagSamples}

\* physical values: the floats m * 10^e / 4, of either sign
PhysMantissas == {0, 1, 2, 3, 4, 5, 7, 10, 50, 3552, 12500}

PhysExponents == {0, 3, 6, 9, 12}

PhysSamples ==
    {FloatVal(sgn, MulAll(BigOf(m), [i \in 1..e |-> 10]), <<4>>, "exact") :
        sgn \in BOOLEAN, m \in PhysMantissas, e \in PhysExponents}

BitWidths == {1, 4, 8, 32}

\* explode_bits(x, n) is called with 0 <= x < 2^n
ExplodeArgs ==
    UNION {{<<BigOf(k), n>> : k \in 0..(Pow2(n) - 1)} : n \in BitWidths \ {32}}
        \union {<<m, 32>> : m \in MagSamples \ {BigPow2(32)}}

\* what a client passes to the encode of the register at position i
EncodeArgs(i) ==
    LET num == all_registers[i].num
    IN  CASE num = 2 -> {ModeVal(m) : m \in DOMAIN MODE}
          [] num \in ScaledNums -> PhysSamples
          [] num = 35 -> {BitsVal(explode_bits(m, 32)) : m \in MagSamples}
          [] OTHER -> IntSamples

Init ==
    /\ pc = "idle"
    /\ fn = "none"
    /\ reg = 0
    /\ arg = NoVal
    /\ orig = NoVal
    /\ lo = 0
    /\ hi = 0
    /\ acc = BigZero
    /\ idx = 0
    /\ packed = NoVal
    /\ ret = NoVal

(***************************************************************************)
(* register_for_address                                                    *)
(***************************************************************************)
CallRegisterForAddress ==
    /\ pc = "idle"
    /\ pc' = "searching"
    /\ fn' = "register_for_address"
    /\ \E addr \in (0 - BelowAddr)..MaxAddr : arg' = AddrVal(addr)
    /\ lo' = 0
    /\ hi' = NumRegisters
    /\ UNCHANGED <<reg, orig, acc, idx, packed, ret>>

\* one iteration of the while loop
SearchStep ==
    /\ pc = "searching"
    /\ lo < hi
    /\ LET mid == (lo + hi) \div 2 IN
        IF SpanLast(Item(mid)) < arg.n
        THEN lo' = mid + 1 /\ hi' = hi
        ELSE hi' = mid /\ lo' = lo
    /\ UNCHANGED <<pc, fn, reg, arg, orig, acc, idx, packed, ret>>

\* the loop has ended: index the table, test membership, return or raise
SearchExit ==
    /\ pc = "searching"
    /\ ~(lo < hi)
    /\ IF lo >= NumRegisters
       THEN pc' = "raised" /\ ret' = Error("IndexError")
       ELSE IF ~InAddr(arg.n, Item(lo))
            THEN pc' = "raised" /\ ret' = Error("ValueError")
            ELSE pc' = "returned" /\ ret' = RegisterVal(lo + 1)
    /\ UNCHANGED <<fn, reg, arg, orig, lo, hi, acc, idx, packed>>

(***************************************************************************)
(* register_for_name                                                       *)
(***************************************************************************)
CallRegisterForName ==
    /\ pc = "idle"
    /\ fn' = "register_for_name"
    /\ \E name \in ProbeNames :
        /\ arg' = NameVal(name)
        /\ IF name \in DOMAIN registers_by_name
           THEN pc' = "returned" /\ ret' = RegisterVal(registers_by_name[name])
           ELSE pc' = "raised" /\ ret' = Error("KeyError")
    /\ UNCHANGED <<reg, orig, lo, hi, acc, idx, packed>>

(***************************************************************************)
(* explode_bits, implode_bits                                              *)
(***************************************************************************)
CallExplodeBits ==
    /\ pc = "idle"
    /\ pc' = "returned"
    /\ fn' = "explode_bits"
    /\ \E a \in ExplodeArgs :
        /\ arg' = Val("int", "", a[2], FALSE, a[1], <<>>)
        /\ ret' = BitsVal(explode_bits(a[1], a[2]))
    /\ UNCHANGED <<reg, orig, lo, hi, acc, idx, packed>>

\* implode_bits(bits) starts: reduce takes bits[0] as the first accumulator and
\* raises TypeError when there is none
EnterReduce(bits) ==
    IF Len(bits) = 0
    THEN pc' = "raised" /\ ret' = Error("TypeError") /\ UNCHANGED <<acc, idx>>
    ELSE pc' = "reducing" /\ ret' = NoVal /\ acc' = BigOf(bits[1]) /\ idx' = 1

\* the client implodes the bits that explode_bits returned
ImplodeExploded ==
    /\ pc = "returned"
    /\ fn = "explode_bits"
    /\ fn' = "implode_bits"
    /\ arg' = ret
    /\ orig' = arg
    /\ EnterReduce(ret.seq)
    /\ UNCHANGED <<reg, lo, hi, packed>>

\* reduce applies the lambda to the next bit
ReduceStep ==
    /\ pc = "reducing"
    /\ idx < Len(arg.seq)
    /\ acc' = ReduceLambda(acc, arg.seq[idx + 1], Len(arg.seq))
    /\ idx' = idx + 1
    /\ UNCHANGED <<pc, fn, reg, arg, orig, lo, hi, packed, ret>>

\* reduce is through: implode_bits returns the accumulator, which the encode
\* of ERR_STAT packs
ReduceExit ==
    /\ pc = "reducing"
    /\ idx = Len(arg.seq)
    /\ LET r == IF fn = "encode"
                THEN pack(PatternOf(all_registers[reg].num), IntVal(FALSE, acc))
                ELSE IntVal(FALSE, acc)
       IN  /\ ret' = r
           /\ pc' = IF r.tag = "error" THEN "raised" ELSE "returned"
    /\ packed' = IF fn = "encode" THEN IntVal(FALSE, acc) ELSE packed
    /\ UNCHANGED <<fn, reg, arg, orig, lo, hi, acc, idx>>

(***************************************************************************)
(* Register.encode, Register.decode                                        *)
(***************************************************************************)
\* all_registers[i - 1].encode(x): packed keeps the int given to pack
RunEncode(i, x) ==
    IF all_registers[i].num = 35
    THEN EnterReduce(x.seq) /\ packed' = NoVal
    ELSE \E v \in ToInt(all_registers[i].num, x) :
            LET r == pack(PatternOf(all_registers[i].num), v)
            IN  /\ packed' = v
                /\ ret' = r
                /\ pc' = IF r.tag = "error" THEN "raised" ELSE "returned"
                /\ UNCHANGED <<acc, idx>>

RunDecode(i, w) ==
    LET r == DecodeReg(i, w[1], w[2])
    IN  /\ ret' = r
        /\ pc' = IF r.tag = "error" THEN "raised" ELSE "returned"
        /\ packed' = NoVal
        /\ UNCHANGED <<acc, idx>>

CallEncode ==
    /\ pc = "idle"
    /\ fn' = "encode"
    /\ \E i \in 1..NumRegisters : \E x \in EncodeArgs(i) :
        /\ reg' = i
        /\ arg' = x
        /\ RunEncode(i, x)
    /\ UNCHANGED <<orig, lo, hi>>

CallDecode ==
    /\ pc = "idle"
    /\ fn' = "decode"
    /\ \E i \in 1..NumRegisters : \E w \in WordPairs :
        /\ reg' = i
        /\ arg' = WordsVal(w)
        /\ RunDecode(i, w)
    /\ UNCHANGED <<orig, lo, hi>>

\* the client decodes the words that encode returned
DecodeEncoded ==
    /\ pc = "returned"
    /\ fn = "encode"
    /\ orig = NoVal
    /\ fn' = "decode"
    /\ arg' = ret
    /\ orig' = arg
    /\ RunDecode(reg, ret.seq)
    /\ UNCHANGED <<reg, lo, hi>>

\* the client encodes the value that decode returned
EncodeDecoded ==
    /\ pc = "returned"
    /\ fn = "decode"
    /\ orig = NoVal
    /\ fn' = "encode"
    /\ arg' = ret
    /\ orig' = arg
    /\ RunEncode(reg, ret)
    /\ UNCHANGED <<reg, lo, hi>>

\* the client has consumed the outcome of a call
Finish ==
    /\ pc \in {"returned", "raised"}
    /\ pc' = "idle"
    /\ fn' = "none"
    /\ reg' = 0
    /\ arg' = NoVal
    /\ orig' = NoVal
    /\ lo' = 0
    /\ hi' = 0
    /\ acc' = BigZero
    /\ idx' = 0
    /\ packed' = NoVal
    /\ ret' = NoVal

Next ==
    \/ CallRegisterForAddress
    \/ SearchStep
    \/ SearchExit
    \/ CallRegisterForName
    \/ CallExplodeBits
    \/ ImplodeExploded
    \/ ReduceStep
    \/ ReduceExit
    \/ CallEncode
    \/ CallDecode
    \/ DecodeEncoded
    \/ EncodeDecoded
    \/ Finish

Spec == Init /\ [][Next]_vars

(***************************************************************************)
(* Properties of the registry.                                             *)
(***************************************************************************)
RegistryCallEnded(f) == fn = f /\ pc \in {"returned", "raised"}

\* the address lies in the span of no register of the table
InNoSpan(a) == \A i \in 1..NumRegisters : ~InAddr(a, all_registers[i])

\* C2: for an address that lies in no register's span (below the first
\* register, in the reserved gap 300..309, above 463), register_for_address
\* raises ValueError ('Register not found for this address'): it returns no
\* register and raises no other kind of error.
C2_UnknownAddressIsValueError ==
    (RegistryCallEnded("register_for_address") /\ InNoSpan(arg.n))
        => (pc = "raised" /\ ret = Error("ValueError"))

\* C3: register names are unique: register_for_name(r.name) returns r itself
\* for every register r of the table, and the name map has as many entries
\* as the table.
C3_NamesUnique ==
    (fn = "register_for_name" /\ pc = "returned")
        => /\ \A i \in 1..NumRegisters :
                all_registers[i].name = arg.s => ret = RegisterVal(i)
           \* one table row for the map entry of this name
           /\ Cardinality({i \in 1..NumRegisters : all_registers[i].name = arg.s}) = 1

\* C6: for every register r of the table, register_for_address(r.addr[0])
\* and register_for_address(r.addr[1]) return r; the search ends because
\* every iteration of the loop narrows the interval lo..hi.
C6_AddressResolves ==
    /\ [](RegistryCallEnded("register_for_address")
            => \A i \in 1..NumRegisters :
                  InAddr(arg.n, all_registers[i])
                      => (pc = "returned" /\ ret = RegisterVal(i)))
    /\ [][(pc = "searching" /\ pc' = "searching")
            => (hi' - lo' < hi - lo /\ 0 <= lo' /\ lo' <= hi')]_vars

\* the first address after the reserved gap resolves to register 155
C6_Witness ==
    /\ fn = "register_for_address"
    /\ pc = "returned"
    /\ arg.n = 310
    /\ all_registers[ret.n].num = 155

\* C11: all_registers is strictly increasing in num and every register's
\* addr is (2*num, 2*num+1); hence the span of each register ends before the
\* span of the next one begins (spans are disjoint and increase along the
\* table), no span holds an address of the reserved numbers 0 and 150-154,
\* and an address register_for_address resolves lies in the span of the
\* returned register and of no other.  The table never changes, so it is
\* examined in the states of an address lookup, the operation that relies
\* on the order.
C11_TableStrictlyIncreasing ==
    fn = "register_for_address" =>
        /\ \A i \in 1..(NumRegisters - 1) :
              /\ all_registers[i].num < all_registers[i + 1].num
              /\ Addr(all_registers[i])[2] < Addr(all_registers[i + 1])[1]
        /\ \A i \in 1..NumRegisters :
              /\ all_registers[i].num >= 0
              /\ all_registers[i].num \notin ReservedNums
              /\ Addr(all_registers[i]) =
                    <<2 * all_registers[i].num, 2 * all_registers[i].num + 1>>
        /\ \A k \in ReservedNums : InNoSpan(2 * k) /\ InNoSpan(2 * k + 1)
        /\ pc = "returned" =>
              {i \in 1..NumRegisters : InAddr(arg.n, all_registers[i])} = {ret.n}

\* the search for the first reserved address after register 149 stopped at
\* the row of register 155, the next one along the table, and found no span
C11_Witness ==
    /\ fn = "register_for_address"
    /\ pc = "raised"
    /\ arg.n = 300
    /\ ret = Error("ValueError")
    /\ Item(lo - 1).num = 149
    /\ Item(lo).num = 155

(***************************************************************************)
(* Properties of the codecs.                                               *)
(***************************************************************************)
CallEnded == pc \in {"returned", "raised"}

\* the number (Register.num) of the register of the current encode or decode
Num == all_registers[reg].num

Encoding == fn = "encode" /\ CallEnded

Decoding == fn = "decode" /\ CallEnded

\* v lies in the 32-bit range of the register: 0 .. 2^32-1, or -2^31 .. 2^31-1
\* for a register with a signed codec
InRange32(num, v) ==
    IF PatternOf(num) = "L"
    THEN ~v.neg /\ BigLess(v.seq, BigPow2(32))
    ELSE IF v.neg THEN BigLeq(v.seq, BigPow2(31)) ELSE BigLess(v.seq, BigPow2(31))

\* v modulo 2^32
WrapTo32(v) ==
    LET m == SubSeq(v.seq, 1, 4) \o SubSeq(BigZero, 5, NBytes)
    IN  IF v.neg /\ m # BigZero THEN BigSub(BigPow2(32), m) ELSE m

\* the int whose 32-bit form (two's complement for a signed codec) is m
Int32Of(num, m) ==
    IF PatternOf(num) = "l" /\ ~BigLess(m, BigPow2(31))
    THEN IntVal(TRUE, BigSub(BigPow2(32), m))
    ELSE IntVal(FALSE, m)

\* |a - b| <= t for floats a, b and t >= 0
FloatAbsDiffLeq(a, b, t) ==
    LET aa == MulAll(MulAll(a.seq, b.den), t.den)
        bb == MulAll(MulAll(b.seq, a.den), t.den)
        tt == MulAll(MulAll(t.seq, a.den), b.den)
        diff == IF a.neg # b.neg THEN BigAdd(aa, bb)
                ELSE IF BigLeq(aa, bb) THEN BigSub(bb, aa) ELSE BigSub(aa, bb)
    IN  BigLeq(diff, tt)

\* the integer v as a float
FloatOfInt(v) == FloatVal(v.neg, v.seq, <<>>, "exact")

\* 1/2
Half == FloatVal(FALSE, BigOf(1), <<2>>, "exact")

\* C1: implode_bits(explode_bits(x, n)) = x for every width n in {1, 4, 8, 32}
\* and every 0 <= x < 2^n; and for ERR_STAT, encode(decode(lo, hi)) = (lo, hi)
\* for every pair of 16-bit words.
C1_ImplodeInvertsExplode ==
    /\ (fn = "implode_bits" /\ CallEnded /\ orig.tag = "int")
        => (pc = "returned" /\ ret = IntVal(FALSE, orig.seq))
    /\ (Encoding /\ Num = 35 /\ orig.tag = "words")
        => (pc = "returned" /\ ret = orig)

C5_ScaledEncodeRounds ==
    (Encoding /\ Num \in ScaledNums /\ pc = "returned")
        => FloatAbsDiffLeq(FloatOfInt(Int32Of(Num, BigOfWords(ret.seq[1], ret.seq[2]))),
                           Scaled(Num, arg), Half)

\* the registers with a raw codec: an int goes to pack as it is
RawNums == {all_registers[i].num : i \in 1..NumRegisters} \ (ScaledNums \union {2, 35})

\* C7: for every register with a raw codec, encode accepts every v of the
\* register's 32-bit range and decode(*encode(v)) = v; and
\* encode(decode(lo, hi)) = (lo, hi) for every pair of 16-bit words.
C7_RawCodecIsInverse ==
    /\ (Encoding /\ Num \in RawNums /\ orig = NoVal /\ InRange32(Num, arg))
        => pc = "returned"
    /\ (Decoding /\ Num \in RawNums /\ orig.tag = "int")
        => (pc = "returned" /\ ret = orig)
    /\ (Encoding /\ Num \in RawNums /\ orig.tag = "words")
        => (pc = "returned" /\ ret = orig)

\* -2^31 went through the encode and the decode of the signed P_SOLL
C7_Witness ==
    /\ Decoding
    /\ Num = 3
    /\ orig = IntVal(TRUE, BigPow2(31))
    /\ ret = orig

\* C8: the decode of MODE_REG maps the raw values 0, 1, 2, 11 to PASSIVE,
\* VELOCITY, POSITION, STOP and raises ValueError, returning nothing, for
\* every other raw 32-bit value; encode maps a mode to its integer, so that
\* decode(*encode(m)) = m.
C8_ModeCodec ==
    /\ (Decoding /\ Num = 2 /\ orig = NoVal)
        => IF arg.seq[2] = 0 /\ arg.seq[1] \in {0, 1, 2, 11}
           THEN /\ pc = "returned"
                /\ ret.tag = "MODE"
                /\ ret.s = CASE arg.seq[1] = 0 -> "PASSIVE"
                             [] arg.seq[1] = 1 -> "VELOCITY"
                             [] arg.seq[1] = 2 -> "POSITION"
                             [] arg.seq[1] = 11 -> "STOP"
           ELSE /\ pc = "raised"
                /\ ret = Error("ValueError")
    /\ (Encoding /\ Num = 2 /\ orig = NoVal)
        => /\ pc = "returned"
           /\ ret.seq = CASE arg.s = "PASSIVE" -> <<0, 0>>
                          [] arg.s = "VELOCITY" -> <<1, 0>>
                          [] arg.s = "POSITION" -> <<2, 0>>
                          [] arg.s = "STOP" -> <<11, 0>>
    /\ (Decoding /\ Num = 2 /\ orig.tag = "MODE")
        => (pc = "returned" /\ ret = orig)

\* the raw value 5 was decoded and raised
C8_Witness ==
    /\ Decoding
    /\ Num = 2
    /\ arg.seq = <<5, 0>>
    /\ pc = "raised"

StepOf(num) ==
    CASE num = 5 -> FloatVal(FALSE, BigOf(100000), <<277056>>, "exact")
      [] num = 6 -> FloatVal(FALSE, BigOf(1000000000), <<3598133>>, "exact")
      [] num = 7 -> FloatVal(FALSE, BigOf(1), <<341>>, "exact")
      [] num = 11 -> FloatVal(FALSE, BigOf(100000), <<277056>>, "exact")
      [] num = 12 -> FloatVal(FALSE, BigOf(100000), <<17316>>, "exact")
      [] num = 198 -> FloatVal(FALSE, BigOf(888), <<1000>>, "exact")

Zero == FloatVal(FALSE, BigZero, <<>>, "exact")

\* 888.0
Volts888 == FloatVal(FALSE, BigOf(888), <<>>, "exact")

\* C10: for a scaled register and a physical value v in its range,
\* abs(decode(*encode(v)) - v) <= 1 / scaleFactor; for U_BUS, raw 1000
\* decodes to 888.0 and 888.0 encodes to the words of 1000, give or take 1.
C10_RoundTripWithinOneStep ==
    /\ (Decoding /\ Num \in ScaledNums /\ orig.tag = "float")
        => (pc = "returned" /\ FloatAbsDiffLeq(ret, orig, StepOf(Num)))
    /\ (Decoding /\ Num = 198 /\ arg.seq = <<1000, 0>>)
        => (pc = "returned" /\ FloatAbsDiffLeq(ret, Volts888, Zero))
    /\ (Encoding /\ Num = 198 /\ orig = NoVal /\ FloatAbsDiffLeq(arg, Volts888, Zero))
        => (pc = "returned" /\ ret.seq[1] \in 999..1001 /\ ret.seq[2] = 0)

\* V_SOLL went through encode and decode and came back changed
C10_Witness ==
    /\ Decoding
    /\ Num = 5
    /\ orig.tag = "float"
    /\ pc = "returned"
    /\ ~FloatAbsDiffLeq(ret, orig, Zero)

====
